---- MODULE Spec2Model ----
(***************************************************************************)
(* A model of build.go, the staged build script of peg.                    *)
(*                                                                         *)
(* One behaviour is a sequence of invocations of `go run build.go          *)
(* [target]` on one file system.  Every function of build.go is a          *)
(* sequence of operations (its body), and a run is executed by an          *)
(* interpreter over a call stack: one step per stat or dependency of       *)
(* done, per chdir, delete and command, per return and per frame of a      *)
(* panic's unwinding.                                                      *)
(*                                                                         *)
(* Paths are sequences of components ("cmd/peg-bootstrap/peg0" is          *)
(* <<"cmd", "peg-bootstrap", "peg0">>), the empty path "" is <<>>, and a   *)
(* relative path is resolved against the working directory as the          *)
(* operating system does.  The working directory is kept relative to the   *)
(* directory the run starts in, which is <<>>.                             *)
(*                                                                         *)
(* External processes (the go tool chain and the generated peg binaries)   *)
(* are modelled at their boundary: a process either fails and then has no  *)
(* effect on the files of the model, or it succeeds and has written the    *)
(* files its command line and the declared outputs of build.go name.       *)
(* Modification times are natural numbers; the clock is later than every   *)
(* modification time on disk and advances with every write.                *)
(***************************************************************************)
EXTENDS Integers, Sequences, FiniteSets, TLC

(***************************************************************************)
(* Bounds of the model.                                                    *)
(***************************************************************************)
\* modification times of the initial file system are drawn from 0..MaxTime
MaxTime == 3
\* number of successive invocations of build.go in a behaviour of SpecRerun
MaxRuns == 2

\* the stat result of a file that does not exist (os.Stat returns an error)
Missing == -1

(***************************************************************************)
(* Constructors of the operations a function body is made of.              *)
(***************************************************************************)
\* a file-path dependency of done (case string)
File(path) == [kind |-> "string", path |-> path]
\* a target dependency of done (case func() bool)
Func(fn) == [kind |-> "func", fn |-> fn]
\* if done(file, deps...) { return true }
Done(file, deps) == [op |-> "done", file |-> file, deps |-> deps]
\* wd := chdir(dir); defer chdir(wd)
Chdir(dir) == [op |-> "chdir", dir |-> dir]
\* command(name, inputFile, outputFile, arg...); writes is what the child
\* process itself leaves on disk (relative to the working directory) when it
\* succeeds
Command(name, inputFile, outputFile, writes) ==
    [op |-> "command", name |-> name, inputFile |-> inputFile,
     outputFile |-> outputFile, writes |-> writes]
\* delete(file)
Delete(file) == [op |-> "delete", file |-> file]
\* deleteFilesWithSuffix(".peg.go")
DeleteFilesWithSuffix == [op |-> "deleteFilesWithSuffix"]
\* a plain call of another target function whose result is dropped
Call(fn) == [op |-> "call", fn |-> fn]
\* the body of buildinfo: os.Create("buildinfo.go") and the template
WriteBuildinfo == [op |-> "buildinfo", file |-> <<"buildinfo.go">>]

(***************************************************************************)
(* The target functions of build.go, each as the sequence of its           *)
(* operations; every one of them ends with `return false`.                 *)
(***************************************************************************)
buildinfo == << WriteBuildinfo >>

bootstrap ==
    << Done(<<"bootstrap", "bootstrap">>,
            << File(<<"bootstrap", "main.go">>), File(<<"tree", "peg.go">>) >>),
       Chdir(<<"bootstrap">>),
       Command("go build", <<>>, <<>>, {<<"bootstrap">>}) >>

peg0 ==
    << Done(<<"cmd", "peg-bootstrap", "peg0">>,
            << File(<<"cmd", "peg-bootstrap", "main.go">>), Func("bootstrap") >>),
       Chdir(<<"cmd", "peg-bootstrap">>),
       DeleteFilesWithSuffix,
       Command("../../bootstrap/bootstrap", <<>>, <<>>, {}),
       Command("go build -o peg0", <<>>, <<>>, {<<"peg0">>}) >>

peg1 ==
    << Done(<<"cmd", "peg-bootstrap", "peg1">>,
            << Func("peg0"), File(<<"cmd", "peg-bootstrap", "bootstrap.peg">>) >>),
       Chdir(<<"cmd", "peg-bootstrap">>),
       DeleteFilesWithSuffix,
       Command("./peg0", <<"bootstrap.peg">>, <<"peg1.peg.go">>, {}),
       Command("go build -o peg1", <<>>, <<>>, {<<"peg1">>}) >>

peg2 ==
    << Done(<<"cmd", "peg-bootstrap", "peg2">>,
            << Func("peg1"), File(<<"cmd", "peg-bootstrap", "peg.bootstrap.peg">>) >>),
       Chdir(<<"cmd", "peg-bootstrap">>),
       DeleteFilesWithSuffix,
       Command("./peg1", <<"peg.bootstrap.peg">>, <<"peg2.peg.go">>, {}),
       Command("go build -o peg2", <<>>, <<>>, {<<"peg2">>}) >>

peg3 ==
    << Done(<<"cmd", "peg-bootstrap", "peg3">>,
            << Func("peg2"), File(<<"peg.peg">>) >>),
       Chdir(<<"cmd", "peg-bootstrap">>),
       DeleteFilesWithSuffix,
       Command("./peg2", <<"..", "..", "peg.peg">>, <<"peg3.peg.go">>, {}),
       Command("go build -o peg3", <<>>, <<>>, {<<"peg3">>}) >>

peg_bootstrap ==
    << Done(<<"cmd", "peg-bootstrap", "peg-bootstrap">>, << Func("peg3") >>),
       Chdir(<<"cmd", "peg-bootstrap">>),
       DeleteFilesWithSuffix,
       Command("./peg3", <<"..", "..", "peg.peg">>, <<"peg-bootstrap.peg.go">>, {}),
       Command("go build -o peg-bootstrap", <<>>, <<>>, {<<"peg-bootstrap">>}) >>

peg_peg_go ==
    << Done(<<"peg.peg.go">>, << Func("peg_bootstrap") >>),
       Command("cmd/peg-bootstrap/peg-bootstrap", <<"peg.peg">>, <<"peg.peg.go">>, {}),
       Command("go build", <<>>, <<>>, {<<"peg">>}),
       Command("./peg -inline -switch peg.peg", <<>>, <<>>, {<<"peg.peg.go">>}) >>

peg ==
    << Done(<<"peg">>, << Func("peg_peg_go"), File(<<"main.go">>) >>),
       Command("go build", <<>>, <<>>, {<<"peg">>}) >>

clean ==
    << Delete(<<"bootstrap", "bootstrap">>),
       Delete(<<"grammars", "c", "c.peg.go">>),
       Delete(<<"grammars", "calculator", "calculator.peg.go">>),
       Delete(<<"grammars", "fexl", "fexl.peg.go">>),
       Delete(<<"grammars", "java", "java_1_7.peg.go">>),
       Delete(<<"grammars", "long_test", "long.peg.go">>),
       Chdir(<<"cmd", "peg-bootstrap">>),
       DeleteFilesWithSuffix,
       Delete(<<"peg0">>),
       Delete(<<"peg1">>),
       Delete(<<"peg2">>),
       Delete(<<"peg3">>),
       Delete(<<"peg-bootstrap">>) >>

\* the six grammar targets differ in their directory and grammar only
Grammar(dir, name) ==
    << Done(<<"grammars", dir, name \o ".go">>,
            << Func("peg"), File(<<"grammars", dir, name>>) >>),
       Chdir(<<"grammars", dir>>),
       Command("../../peg -switch -inline", <<>>, <<>>, {<<name \o ".go">>}) >>

grammars_c == Grammar("c", "c.peg")

grammars_calculator == Grammar("calculator", "calculator.peg")

grammars_calculator_ast == Grammar("calculator_ast", "calculator.peg")

grammars_fexl == Grammar("fexl", "fexl.peg")

grammars_java == Grammar("java", "java_1_7.peg")

grammars_long_test == Grammar("long_test", "long.peg")

test ==
    << Done(<<>>,
            << Func("grammars_c"), Func("grammars_calculator"),
               Func("grammars_calculator_ast"), Func("grammars_fexl"),
               Func("grammars_java"), Func("grammars_long_test") >>),
       Command("go test -short -tags grammars ./...", <<>>, <<>>, {}) >>

bench ==
    << Call("peg"),
       Command("go test -benchmem -bench .", <<>>, <<>>, {}) >>

\* the functions of build.go that are targets
Targets ==
    {"buildinfo", "bootstrap", "peg0", "peg1", "peg2", "peg3", "peg_bootstrap",
     "peg_peg_go", "peg", "clean", "grammars_c", "grammars_calculator",
     "grammars_calculator_ast", "grammars_fexl", "grammars_java",
     "grammars_long_test", "test", "bench"}

Body(fn) ==
    CASE fn = "buildinfo" -> buildinfo
      [] fn = "bootstrap" -> bootstrap
      [] fn = "peg0" -> peg0
      [] fn = "peg1" -> peg1
      [] fn = "peg2" -> peg2
      [] fn = "peg3" -> peg3
      [] fn = "peg_bootstrap" -> peg_bootstrap
      [] fn = "peg_peg_go" -> peg_peg_go
      [] fn = "peg" -> peg
      [] fn = "clean" -> clean
      [] fn = "grammars_c" -> grammars_c
      [] fn = "grammars_calculator" -> grammars_calculator
      [] fn = "grammars_calculator_ast" -> grammars_calculator_ast
      [] fn = "grammars_fexl" -> grammars_fexl
      [] fn = "grammars_java" -> grammars_java
      [] fn = "grammars_long_test" -> grammars_long_test
      [] fn = "test" -> test
      [] fn = "bench" -> bench


(***************************************************************************)
(* Paths and the file system.                                              *)
(***************************************************************************)
RECURSIVE Clean(_, _)
\* lexical resolution of a path: "." is dropped and ".." removes the
\* component before it
Clean(acc, rest) ==
    IF rest = <<>> THEN acc
    ELSE IF Head(rest) = "." THEN Clean(acc, Tail(rest))
    ELSE IF Head(rest) = ".." /\ acc # <<>> /\ acc[Len(acc)] # ".."
         THEN Clean(SubSeq(acc, 1, Len(acc) - 1), Tail(rest))
    ELSE Clean(Append(acc, Head(rest)), Tail(rest))

\* the file a relative path names when the working directory is dir
Resolve(dir, path) == Clean(dir, path)

\* the directory and the name of a file
DirOf(f) == SubSeq(f, 1, Len(f) - 1)

NameOf(f) == f[Len(f)]

\* the targets whose body starts with the staleness check
DoneTargets == {t \in Targets : Body(t)[1].op = "done"}

\* the declared output of a target ("" for test)
Output(t) == Body(t)[1].file

\* the dependencies of a target, in the order of declaration
Deps(t) == Body(t)[1].deps

\* the file-path dependencies and the target dependencies of a target
FileDeps(t) == {Deps(t)[i].path : i \in {j \in DOMAIN Deps(t) : Deps(t)[j].kind = "string"}}

FuncDeps(t) == {Deps(t)[i].fn : i \in {j \in DOMAIN Deps(t) : Deps(t)[j].kind = "func"}}

\* the files build.go declares as outputs, and the files it declares as
\* file-path dependencies (the hand-written sources)
Outputs == {Output(t) : t \in {u \in DoneTargets : Output(u) # <<>>}}

Sources == UNION {FileDeps(t) : t \in DoneTargets}

\* the generated parsers the bootstrap stages capture with outputFile
Generated ==
    {<<"cmd", "peg-bootstrap", n>> :
        n \in {"peg1.peg.go", "peg2.peg.go", "peg3.peg.go", "peg-bootstrap.peg.go"}}

Files == Sources \cup Outputs \cup Generated \cup {<<"buildinfo.go">>}

\* the directories of the repository; they exist in every state
Dirs == {<<>>} \cup {DirOf(f) : f \in Files} \cup {<<"cmd">>, <<"grammars">>}

\* strings.HasSuffix(name, ".peg.go") on the file names of the model
HasSuffix(name) ==
    name \in {"peg1.peg.go", "peg2.peg.go", "peg3.peg.go", "peg-bootstrap.peg.go",
              "peg.peg.go", "c.peg.go", "calculator.peg.go", "fexl.peg.go",
              "java_1_7.peg.go", "long.peg.go"}

(***************************************************************************)
(* The state.                                                              *)
(***************************************************************************)
VARIABLES
    fs,         \* the modification time of every file, Missing if absent
    clock,      \* the time a write stamps on a file
    cwd,        \* the working directory of the running process
    processed,  \* var processed: target name -> result of its evaluation
    stack,      \* the call stack of target functions, innermost last
    mode,       \* "idle", "running", "panic" (unwinding), "exited", "aborted"
    target,     \* the target name main selected
    left,       \* number of runs that may still be started
    fs0,        \* the file system when the current run started
    evals,      \* how often each target function was entered in this run
    absent,     \* the targets whose output was absent when they were entered
    hits,       \* how often done found each target in processed in this run
    acts,       \* how often done returned false to each target in this run
    skipped,    \* the targets that returned true in this run
    built,      \* the targets that returned false in this run
    procs,      \* the processes command started in this run, in order
    prev        \* target, mode and built of the previous run

vars ==
    <<fs, clock, cwd, processed, stack, mode, target, left, fs0, evals,
      absent, hits, acts, skipped, built, procs, prev>>

\* the history of a run, which no step of the program reads
hist == <<fs0, evals, absent, hits, acts, skipped, built, procs, prev>>

\* a cache that is not empty when the process starts
StaleMap == [t \in {"peg"} |-> TRUE]

\* processed = make(map[string]bool)
EmptyMap == [t \in {} |-> TRUE]

\* the frame of a call of fn: pc is the operation of the body to execute; i,
\* fini and info are the loop index and the locals of done; defers holds
\* the directories of the deferred chdir calls; exited says that the child
\* process of the command at pc has exited successfully; entry records the
\* working directory at the call, which no step reads
Frame(fn) ==
    [fn |-> fn, pc |-> 1, i |-> 0, fini |-> TRUE, info |-> Missing,
     defers |-> <<>>, exited |-> FALSE, entry |-> cwd]

Top == stack[Len(stack)]

Op == Body(Top.fn)[Top.pc]

Running == mode = "running" /\ stack # <<>>

AtOp(op) == Running /\ Top.pc <= Len(Body(Top.fn)) /\ Op.op = op

SetTop(f) == [stack EXCEPT ![Len(stack)] = f]

\* a stat that takes the empty path for the working directory
StatEmptyAsDot(path) ==
    IF path = <<>> THEN 0
    ELSE IF Resolve(cwd, path) \in Files THEN fs[Resolve(cwd, path)]
    ELSE Missing

\* os.Stat(path).ModTime(), or Missing when os.Stat fails; the empty path
\* names no file
Stat(path) ==
    IF path = <<>> THEN Missing
    ELSE IF Resolve(cwd, path) \in Files THEN fs[Resolve(cwd, path)]
    ELSE Missing

\* the file system after the files named by paths are written now
Written(paths) ==
    [f \in Files |->
        IF f \in {Resolve(cwd, p) : p \in paths} THEN clock ELSE fs[f]]

\* the file system after os.Remove of the files named by paths
Removed(paths) ==
    [f \in Files |->
        IF f \in {Resolve(cwd, p) : p \in paths} THEN Missing ELSE fs[f]]

(***************************************************************************)
(* The initial file systems: a fresh checkout (the sources and nothing     *)
(* else) or a complete build (every output newer than every source), with  *)
(* a declared file changed.  Spec follows one run of build.go from a        *)
(* complete build with at most one declared file absent or of another      *)
(* time, and from a fresh checkout with at most one source absent.         *)
(* SpecRerun follows up to MaxRuns successive runs.                        *)
(***************************************************************************)
Fresh == [f \in Files |-> IF f \in Sources THEN 1 ELSE Missing]

Built ==
    [f \in Files |->
        IF f \in Sources THEN 1
        ELSE IF f \in Outputs \cup {<<"cmd", "peg-bootstrap", "peg-bootstrap.peg.go">>}
        THEN 2
        ELSE Missing]

InitialFS ==
    {Fresh, Built}
    \cup {[Built EXCEPT ![f] = v] :
            f \in Sources \cup Outputs, v \in {Missing} \cup (0 .. MaxTime)}
    \cup {[Fresh EXCEPT ![f] = Missing] : f \in Sources}

\* the file systems from which successive runs are followed: a fresh
\* checkout, a complete build, and a complete build that lost the binary of
\* one bootstrap stage
RerunFS ==
    {Fresh, Built}
    \cup {[Built EXCEPT ![Output(t)] = Missing] : t \in {"peg0", "peg2"}}

Start(files, runs) ==
    /\ fs \in files
    /\ left = runs
    /\ clock = MaxTime + 1
    /\ cwd = <<>>
    /\ processed = EmptyMap
    /\ stack = <<>>
    /\ mode = "idle"
    /\ target = "none"
    /\ fs0 = fs
    /\ evals = [t \in Targets |-> 0]
    /\ absent = {}
    /\ hits = [t \in Targets |-> 0]
    /\ acts = [t \in Targets |-> 0]
    /\ skipped = {}
    /\ built = {}
    /\ procs = <<>>
    /\ prev = [target |-> "none", mode |-> "idle", built |-> {}]

Init == Start(InitialFS, 1)

InitRerun == Start(RerunFS, MaxRuns)


(***************************************************************************)
(* Calls, returns and panics.                                              *)
(***************************************************************************)
\* whether the declared output of fn is on disk (history only)
OutputAbsent(fn) ==
    fn \in DoneTargets /\ Output(fn) # <<>> /\ fs[Output(fn)] = Missing

\* a done that forgets to store the result
StoreNothing(m, name, result) == m

\* a done that stores the negation of what the dependency returned
StoreNegated(m, name, result) ==
    [t \in DOMAIN m \cup {name} |-> IF t = name THEN ~result ELSE m[t]]

\* processed[name] = result, line 141
Store(m, name, result) ==
    [t \in DOMAIN m \cup {name} |-> IF t = name THEN result ELSE m[t]]

\* a done that ignores the result of a target dependency
FoldDropped(fini, result) == fini

\* fini = fini && result, lines 134 and 139
Fold(fini, result) == fini /\ result

\* a function end that runs no deferred call
DefersForgotten(f) == cwd

\* the working directory after the deferred chdir calls of a frame have
\* run, last registered first
AfterDefers(f) == IF f.defers = <<>> THEN cwd ELSE f.defers[1]

\* The caller st receives the result of fn.  main drops it and exits; done
\* folds it into fini and stores it in processed (lines 138-141); a plain
\* call drops it.
Returned(st, fn, result) ==
    IF st = <<>>
    THEN /\ stack' = <<>>
         /\ mode' = "exited"
         /\ processed' = processed
    ELSE LET caller == st[Len(st)]
         IN /\ mode' = mode
            /\ IF Body(caller.fn)[caller.pc].op = "done"
               THEN /\ stack' = [st EXCEPT ![Len(st)] =
                                    [caller EXCEPT !.fini = Fold(caller.fini, result),
                                                   !.i = caller.i + 1]]
                    /\ processed' = Store(processed, fn, result)
               ELSE /\ stack' = [st EXCEPT ![Len(st)] =
                                    [caller EXCEPT !.pc = caller.pc + 1]]
                    /\ processed' = processed

\* an error that is dropped: the function goes on with its next operation
PanicDropped ==
    /\ stack' = SetTop([Top EXCEPT !.pc = Top.pc + 1])
    /\ UNCHANGED <<mode, processed, cwd, fs, clock>>

\* panic(err): the frames are unwound from the next step on
Panic ==
    /\ mode' = "panic"
    /\ UNCHANGED <<stack, processed, cwd, fs, clock>>

(***************************************************************************)
(* main: one invocation of `go run build.go [arg]`.                        *)
(***************************************************************************)
\* what the command line can be: no argument, the six names of the switch,
\* and a name the switch does not know
Args == {"", "buildinfo", "peg", "clean", "test", "bench", "help", "other"}

\* the functions the switch of main calls
Dispatched == {"buildinfo", "peg", "clean", "test", "bench"}

\* a main without the default target
TargetAsGiven(arg) == arg

\* args, target := flag.Args(), "peg"; if len(args) > 0 { target = args[0] }
TargetOf(arg) == IF arg = "" THEN "peg" ELSE arg

main(arg) ==
    /\ mode \in {"idle", "exited", "aborted"}
    /\ left > 0
    /\ left' = left - 1
    /\ target' = TargetOf(arg)
    /\ processed' = EmptyMap
    /\ cwd' = <<>>
    /\ IF TargetOf(arg) \in Dispatched
       THEN /\ stack' = << [Frame(TargetOf(arg)) EXCEPT !.entry = <<>>] >>
            /\ mode' = "running"
            /\ evals' = [t \in Targets |-> IF t = TargetOf(arg) THEN 1 ELSE 0]
            /\ absent' = {t \in {TargetOf(arg)} : OutputAbsent(t)}
       ELSE /\ stack' = <<>>
            /\ mode' = "exited"
            /\ evals' = [t \in Targets |-> 0]
            /\ absent' = {}
    /\ fs0' = fs
    /\ hits' = [t \in Targets |-> 0]
    /\ acts' = [t \in Targets |-> 0]
    /\ skipped' = {}
    /\ built' = {}
    /\ procs' = <<>>
    /\ prev' = [target |-> target, mode |-> mode, built |-> built]
    /\ UNCHANGED <<fs, clock>>

(***************************************************************************)
(* done(file, deps...), lines 108-146.                                     *)
(***************************************************************************)
\* a done that leaves fini true when the stat of the output fails
StatAlwaysOK(info) == TRUE

\* a done with the test of err inverted
StatInverted(info) == info = Missing

\* if err != nil { fini = false }, lines 112-114
StatOK(info) == info # Missing

\* a comparison that takes an equal time for a later one
NotBefore(t, u) == t >= u

\* fileInfo.ModTime().After(info.ModTime()), line 128
After(t, u) == t > u

\* a done that does not look at the error of the stat of a dependency
StatNeverFails(dep) == FALSE

\* os.Stat(dep) returns an error, lines 123-126
StatFails(dep) == Stat(dep) = Missing

\* lines 109-114: fini := true; info, err := os.Stat(file)
done_stat ==
    /\ AtOp("done")
    /\ Top.i = 0
    /\ stack' = SetTop([Top EXCEPT !.info = Stat(Op.file),
                                   !.fini = StatOK(Stat(Op.file)),
                                   !.i = 1])
    /\ UNCHANGED <<fs, clock, cwd, processed, mode, target, left, hist>>

\* lines 117-130: a file-path dependency
done_string ==
    /\ AtOp("done")
    /\ Top.i \in DOMAIN Op.deps
    /\ Op.deps[Top.i].kind = "string"
    /\ LET dep == Op.deps[Top.i].path
       IN IF Top.info = Missing
          THEN /\ stack' = SetTop([Top EXCEPT !.fini = FALSE, !.i = Top.i + 1])
               /\ UNCHANGED <<fs, clock, cwd, processed, mode>>
          ELSE IF StatFails(dep)
          THEN Panic
          ELSE /\ stack' = SetTop([Top EXCEPT
                              !.fini = Top.fini /\ ~After(Stat(dep), Top.info),
                              !.i = Top.i + 1])
               /\ UNCHANGED <<fs, clock, cwd, processed, mode>>
    /\ UNCHANGED <<target, left, hist>>

\* lines 131-137: a target dependency that is in processed
done_func_processed ==
    /\ AtOp("done")
    /\ Top.i \in DOMAIN Op.deps
    /\ Op.deps[Top.i].kind = "func"
    /\ Op.deps[Top.i].fn \in DOMAIN processed
    /\ stack' = SetTop([Top EXCEPT
                   !.fini = Fold(Top.fini, processed[Op.deps[Top.i].fn]),
                   !.i = Top.i + 1])
    /\ hits' = [hits EXCEPT ![Op.deps[Top.i].fn] = @ + 1]
    /\ UNCHANGED <<fs, clock, cwd, processed, mode, target, left, fs0,
                   evals, absent, acts, skipped, built, procs, prev>>

\* a done that calls a target dependency only while fini is still true
done_func_lazy ==
    /\ AtOp("done")
    /\ Top.i \in DOMAIN Op.deps
    /\ Op.deps[Top.i].kind = "func"
    /\ Op.deps[Top.i].fn \notin DOMAIN processed
    /\ IF Top.fini
       THEN /\ stack' = Append(stack, Frame(Op.deps[Top.i].fn))
            /\ evals' = [evals EXCEPT ![Op.deps[Top.i].fn] = @ + 1]
            /\ absent' = absent \cup {t \in {Op.deps[Top.i].fn} : OutputAbsent(t)}
       ELSE /\ stack' = SetTop([Top EXCEPT !.i = Top.i + 1])
            /\ UNCHANGED <<evals, absent>>
    /\ UNCHANGED <<fs, clock, cwd, processed, mode, target, left, fs0,
                   hits, acts, skipped, built, procs, prev>>

\* line 138: a target dependency that is not in processed is called
done_func_call ==
    /\ AtOp("done")
    /\ Top.i \in DOMAIN Op.deps
    /\ Op.deps[Top.i].kind = "func"
    /\ Op.deps[Top.i].fn \notin DOMAIN processed
    /\ stack' = Append(stack, Frame(Op.deps[Top.i].fn))
    /\ evals' = [evals EXCEPT ![Op.deps[Top.i].fn] = @ + 1]
    /\ absent' = absent \cup {t \in {Op.deps[Top.i].fn} : OutputAbsent(t)}
    /\ UNCHANGED <<fs, clock, cwd, processed, mode, target, left, fs0,
                   hits, acts, skipped, built, procs, prev>>

\* a done that leaves its loop as soon as fini is false
done_return_eager ==
    /\ AtOp("done")
    /\ Top.i >= 1
    /\ Top.i = Len(Op.deps) + 1 \/ ~Top.fini
    /\ IF Top.fini
       THEN /\ Returned(SubSeq(stack, 1, Len(stack) - 1), Top.fn, TRUE)
            /\ skipped' = skipped \cup {Top.fn}
            /\ acts' = acts
       ELSE /\ stack' = SetTop([Top EXCEPT !.pc = Top.pc + 1])
            /\ acts' = [acts EXCEPT ![Top.fn] = @ + 1]
            /\ UNCHANGED <<processed, mode, skipped>>
    /\ UNCHANGED <<fs, clock, cwd, target, left, fs0, evals, absent, hits,
                   built, procs, prev>>

\* line 145 and the target's `if done(...) { return true }`
done_return ==
    /\ AtOp("done")
    /\ Top.i = Len(Op.deps) + 1
    /\ IF Top.fini
       THEN /\ Returned(SubSeq(stack, 1, Len(stack) - 1), Top.fn, TRUE)
            /\ skipped' = skipped \cup {Top.fn}
            /\ acts' = acts
       ELSE /\ stack' = SetTop([Top EXCEPT !.pc = Top.pc + 1])
            /\ acts' = [acts EXCEPT ![Top.fn] = @ + 1]
            /\ UNCHANGED <<processed, mode, skipped>>
    /\ UNCHANGED <<fs, clock, cwd, target, left, fs0, evals, absent, hits,
                   built, procs, prev>>

(***************************************************************************)
(* The operations of a target's action.                                    *)
(***************************************************************************)
\* wd := chdir(dir); defer chdir(wd), lines 148-160
chdir ==
    /\ AtOp("chdir")
    /\ IF Resolve(cwd, Op.dir) \in Dirs
       THEN /\ cwd' = Resolve(cwd, Op.dir)
            /\ stack' = SetTop([Top EXCEPT !.defers = Append(Top.defers, cwd),
                                           !.pc = Top.pc + 1])
            /\ UNCHANGED <<fs, clock, processed, mode>>
       ELSE Panic
    /\ UNCHANGED <<target, left, hist>>

\* delete(file), lines 211-215: os.Remove, its error dropped
delete ==
    /\ AtOp("delete")
    /\ fs' = Removed({Op.file})
    /\ stack' = SetTop([Top EXCEPT !.pc = Top.pc + 1])
    /\ UNCHANGED <<clock, cwd, processed, mode, target, left, hist>>

\* deleteFilesWithSuffix(".peg.go"), lines 217-227: the files of the
\* working directory whose name has the suffix are removed
deleteFilesWithSuffix ==
    /\ AtOp("deleteFilesWithSuffix")
    /\ fs' = [f \in Files |->
                IF DirOf(f) = cwd /\ HasSuffix(NameOf(f)) THEN Missing ELSE fs[f]]
    /\ stack' = SetTop([Top EXCEPT !.pc = Top.pc + 1])
    /\ UNCHANGED <<clock, cwd, processed, mode, target, left, hist>>

\* a command that goes on whatever the child process returned
ErrIgnored(ok) == TRUE

\* err == nil after cmd.Output() and cmd.CombinedOutput(), lines 193 and 204
Successful(ok) == ok

\* command, lines 162-208, up to the exit of the child process: the input
\* file is read (a missing one panics before the process is started), the
\* process runs and exits with or without an error
command_run ==
    /\ AtOp("command")
    /\ ~Top.exited
    /\ IF Op.inputFile # <<>> /\ Stat(Op.inputFile) = Missing
       THEN /\ Panic
            /\ procs' = procs
       ELSE \E ok \in BOOLEAN :
              /\ procs' = Append(procs, [fn |-> Top.fn, pc |-> Top.pc, ok |-> ok])
              /\ IF Successful(ok)
                 THEN /\ fs' = Written(Op.writes)
                      /\ clock' = IF Op.writes = {} THEN clock ELSE clock + 1
                      /\ stack' = SetTop(IF Op.outputFile # <<>>
                                         THEN [Top EXCEPT !.exited = TRUE]
                                         ELSE [Top EXCEPT !.pc = Top.pc + 1])
                      /\ UNCHANGED <<cwd, processed, mode>>
                 ELSE Panic
    /\ UNCHANGED <<target, left, fs0, evals, absent, hits, acts, skipped, built,
                   prev>>

\* command, line 198: ioutil.WriteFile(outputFile, output, 0600)
command_write ==
    /\ AtOp("command")
    /\ Top.exited
    /\ fs' = Written({Op.outputFile})
    /\ clock' = clock + 1
    /\ stack' = SetTop([Top EXCEPT !.exited = FALSE, !.pc = Top.pc + 1])
    /\ UNCHANGED <<cwd, processed, mode, target, left, hist>>

\* peg() in bench, line 451
call ==
    /\ AtOp("call")
    /\ stack' = Append(stack, Frame(Op.fn))
    /\ evals' = [evals EXCEPT ![Op.fn] = @ + 1]
    /\ absent' = absent \cup {t \in {Op.fn} : OutputAbsent(t)}
    /\ UNCHANGED <<fs, clock, cwd, processed, mode, target, left, fs0,
                   hits, acts, skipped, built, procs, prev>>

\* buildinfo, lines 53-104: buildinfo.go is created and written; the git
\* queries only decide its text, and their failures are logged
write_buildinfo ==
    /\ AtOp("buildinfo")
    /\ fs' = Written({Op.file})
    /\ clock' = clock + 1
    /\ stack' = SetTop([Top EXCEPT !.pc = Top.pc + 1])
    /\ UNCHANGED <<cwd, processed, mode, target, left, hist>>

\* `return false` at the end of a target function; its deferred chdir runs
return_false ==
    /\ Running
    /\ Top.pc = Len(Body(Top.fn)) + 1
    /\ cwd' = AfterDefers(Top)
    /\ Returned(SubSeq(stack, 1, Len(stack) - 1), Top.fn, FALSE)
    /\ built' = built \cup {Top.fn}
    /\ UNCHANGED <<fs, clock, target, left, fs0, evals, absent, hits, acts,
                   skipped, procs, prev>>

\* a panic that ends the functions without running their deferred calls
unwind_without_defers ==
    /\ mode = "panic"
    /\ stack # <<>>
    /\ stack' = SubSeq(stack, 1, Len(stack) - 1)
    /\ mode' = IF Len(stack) = 1 THEN "aborted" ELSE "panic"
    /\ UNCHANGED <<fs, clock, cwd, processed, target, left, hist>>

\* a panic unwinds one frame, running its deferred chdir; when no frame is
\* left the process dies
unwind ==
    /\ mode = "panic"
    /\ stack # <<>>
    /\ cwd' = AfterDefers(Top)
    /\ stack' = SubSeq(stack, 1, Len(stack) - 1)
    /\ mode' = IF Len(stack) = 1 THEN "aborted" ELSE "panic"
    /\ UNCHANGED <<fs, clock, processed, target, left, hist>>

Next ==
    \/ \E arg \in Args : main(arg)
    \/ done_stat
    \/ done_string
    \/ done_func_processed
    \/ done_func_call
    \/ done_return
    \/ chdir
    \/ delete
    \/ deleteFilesWithSuffix
    \/ command_run
    \/ command_write
    \/ call
    \/ write_buildinfo
    \/ return_false
    \/ unwind

Spec == Init /\ [][Next]_vars

SpecRerun == InitRerun /\ [][Next]_vars


(***************************************************************************)
(* Vocabulary of the properties.                                           *)
(***************************************************************************)
\* the frame is inside done, and done has finished its loop over the deps
InDone(f) == f.pc <= Len(Body(f.fn)) /\ Body(f.fn)[f.pc].op = "done"

LoopEnded(f) == InDone(f) /\ f.i = Len(Deps(f.fn)) + 1

\* the targets with a non-empty declared output
WithOutput == {t \in DoneTargets : Output(t) # <<>>}

\* the three conditions of the staleness check, read off the file system and
\* the cache: the output exists, no file-path dependency is later than it,
\* and every target dependency reported up to date in this run
OutputExists(t) == fs[Output(t)] # Missing

FilesNotLater(t) ==
    \A d \in FileDeps(t) : fs[d] # Missing /\ fs[d] <= fs[Output(t)]

FuncsUpToDate(t) ==
    \A g \in FuncDeps(t) : g \in DOMAIN processed /\ processed[g]

UpToDate(t) == OutputExists(t) /\ FilesNotLater(t) /\ FuncsUpToDate(t)

\* C1: for a target with a declared output, done returns true (and the
\* target then returns true without running its action) if and only if the
\* output exists, no file-path dependency is strictly later than the output
\* (equal times are up to date) and every target dependency reported up to
\* date in this run.
C1_DoneIffUpToDate ==
    /\ \A k \in DOMAIN stack :
          LoopEnded(stack[k]) /\ stack[k].fn \in WithOutput
             => (stack[k].fini <=> UpToDate(stack[k].fn))
    /\ \A t \in WithOutput : ~(t \in skipped /\ acts[t] > 0)

\* done is about to return true for a target that has a target dependency
\* and a file-path dependency exactly as old as the output
C1_Witness ==
    \E k \in DOMAIN stack :
       /\ LoopEnded(stack[k])
       /\ stack[k].fn \in WithOutput
       /\ stack[k].fini
       /\ FuncDeps(stack[k].fn) # {}
       /\ \E d \in FileDeps(stack[k].fn) : fs[d] = fs[Output(stack[k].fn)]

\* the chains A -> B -> C of build.go: B depends on A and C depends on B
Chains ==
    UNION {UNION {{<<a, b, c>> : a \in FuncDeps(b)} :
                    b \in FuncDeps(c) \cap DoneTargets} :
             c \in DoneTargets}

\* when the run started, the output of t existed and a file-path dependency
\* of t was later than it
StaleLeaf(t) ==
    /\ t \in WithOutput
    /\ fs0[Output(t)] # Missing
    /\ \E d \in FileDeps(t) : fs0[d] # Missing /\ fs0[d] > fs0[Output(t)]

\* C2: for every chain A -> B -> C, if a file-path dependency of A is later
\* than A's output when the run starts, then none of A, B and C reports up
\* to date in that run, and a run that evaluates C and exits has run the
\* actions of A, B and C.
C2_StalenessPropagates ==
    \A c \in Chains :
       StaleLeaf(c[1]) =>
          /\ \A x \in {c[1], c[2], c[3]} :
                /\ x \notin skipped
                /\ x \in DOMAIN processed => ~processed[x]
          /\ mode = "exited" /\ evals[c[3]] > 0
                => \A x \in {c[1], c[2], c[3]} : acts[x] = 1 /\ x \in built

\* a run has exited after rebuilding a whole chain whose last two outputs
\* existed and were later than all their own file-path dependencies when the
\* run started
C2_Witness ==
    \E c \in Chains :
       /\ StaleLeaf(c[1])
       /\ mode = "exited"
       /\ {c[1], c[2], c[3]} \subseteq built
       /\ \A x \in {c[2], c[3]} :
             /\ x \in WithOutput
             /\ fs0[Output(x)] # Missing
             /\ \A d \in FileDeps(x) : fs0[d] # Missing /\ fs0[d] < fs0[Output(x)]

\* C3: in one run every target function is entered at most once and its
\* action is started at most once, so no command of a target is executed
\* twice; a target that more than one target depends on is read from
\* processed on every reference after the first.
C3_EvaluatedOnce ==
    /\ \A t \in Targets : evals[t] <= 1 /\ acts[t] <= 1
    /\ \A i, j \in DOMAIN procs :
          procs[i].fn = procs[j].fn /\ procs[i].pc = procs[j].pc => i = j
    /\ \A t \in Targets : hits[t] > 0 => t \in DOMAIN processed /\ evals[t] = 1

\* test has exited: peg was entered once, its action ran once, and the five
\* later references found it in processed
C3_Witness ==
    /\ target = "test"
    /\ mode = "exited"
    /\ evals["peg"] = 1
    /\ acts["peg"] = 1
    /\ hits["peg"] = 5

\* C4: a target with a declared output whose output does not exist when the
\* target is evaluated never returns true, and done, once its loop has
\* ended, returns false to it, so that the action is run.
C4_MissingOutputRuns ==
    \A t \in absent :
       /\ t \notin skipped
       /\ t \in DOMAIN processed => ~processed[t]
       /\ \A k \in DOMAIN stack :
             stack[k].fn = t /\ InDone(stack[k]) /\ stack[k].i > 0
                => ~stack[k].fini /\ stack[k].info = Missing
       /\ evals[t] = 1 /\ mode = "exited" => acts[t] = 1 /\ t \in built

\* a target without file-path dependencies whose output was absent and whose
\* target dependencies were all up to date has run its action
C4_Witness ==
    \E t \in absent :
       /\ FileDeps(t) = {}
       /\ FuncsUpToDate(t)
       /\ t \in built


RECURSIVE Reach(_)
\* t and the targets t depends on, directly or indirectly
Reach(t) ==
    IF t \in DoneTargets THEN {t} \cup UNION {Reach(g) : g \in FuncDeps(t)}
    ELSE {t}

\* C5: idempotence.  When done has ended its loop for a target whose output
\* exists, is not older than any file-path dependency, and whose target
\* dependencies all reported up to date, it returns true; a target that
\* returned true has started no process, and neither has any target it
\* depends on.  A run of peg that follows, on the same file system, a run
\* of peg that exited starts no process and changes no file.
C5_Idempotent ==
    /\ \A k \in DOMAIN stack :
          LoopEnded(stack[k]) /\ stack[k].fn \in WithOutput /\ UpToDate(stack[k].fn)
             => stack[k].fini
    /\ \A t \in skipped : \A i \in DOMAIN procs : procs[i].fn \notin Reach(t)
    /\ prev.target = "peg" /\ prev.mode = "exited" /\ target = "peg"
          => /\ procs = <<>>
             /\ fs = fs0
             /\ mode = "exited" => Reach("peg") \subseteq skipped

\* the first run of peg built every stage, the second has exited with
\* everything up to date
C5_Witness ==
    /\ prev.target = "peg"
    /\ prev.mode = "exited"
    /\ Reach("peg") \subseteq prev.built
    /\ target = "peg"
    /\ mode = "exited"
    /\ "peg" \in skipped

\* the targets whose declared output is the empty path
WithoutOutput == {t \in DoneTargets : Output(t) = <<>>}

\* C6 as stated: done returns true to a target with an empty output path
\* exactly when all its target dependencies reported up to date.
C6_Original ==
    \A k \in DOMAIN stack :
       LoopEnded(stack[k]) /\ stack[k].fn \in WithoutOutput
          => (stack[k].fini <=> FuncsUpToDate(stack[k].fn))

\* C6, amended: done never returns true to a target with an empty output
\* path (the stat of "" fails), whatever its target dependencies report:
\* the target never returns true, and when its run exits its action has
\* run, all its dependencies having been evaluated.
C6_EmptyOutputAlwaysRuns ==
    \A t \in WithoutOutput :
       /\ t \notin skipped
       /\ \A k \in DOMAIN stack :
             stack[k].fn = t /\ InDone(stack[k]) /\ stack[k].i > 0 => ~stack[k].fini
       /\ evals[t] = 1 /\ mode = "exited"
             => /\ acts[t] = 1
                /\ t \in built
                /\ \E i \in DOMAIN procs : procs[i].fn = t
                /\ FuncDeps(t) \subseteq DOMAIN processed

\* test has exited after running go test although all six grammar targets
\* reported up to date
C6_Witness ==
    /\ target = "test"
    /\ mode = "exited"
    /\ FuncsUpToDate("test")
    /\ \E i \in DOMAIN procs : procs[i].fn = "test" /\ procs[i].ok

\* a file-path dependency of t does not exist
MissingDep(t) == \E d \in FileDeps(t) : fs[d] = Missing

\* C7 as stated: a target that is evaluated while one of its file-path
\* dependencies does not exist never runs its action, whether or not its
\* output exists.
C7_Original ==
    \A t \in DoneTargets : evals[t] > 0 /\ MissingDep(t) => acts[t] = 0

\* C7, amended: a target that is evaluated while its output exists and one
\* of its file-path dependencies does not: done never gets past that
\* dependency, the target neither returns nor runs its action, and the run
\* does not exit normally.
C7_MissingDepAborts ==
    \A t \in WithOutput :
       evals[t] > 0 /\ t \notin absent /\ MissingDep(t) =>
          /\ acts[t] = 0
          /\ t \notin skipped
          /\ t \notin built
          /\ mode # "exited"
          /\ \A k \in DOMAIN stack :
                stack[k].fn = t =>
                   /\ InDone(stack[k])
                   /\ \A j \in DOMAIN Deps(t) :
                         j < stack[k].i /\ Deps(t)[j].kind = "string"
                            => fs[Deps(t)[j].path] # Missing

\* a run has aborted in done on an absent file-path dependency that is
\* declared after a target dependency
C7_Witness ==
    \E t \in WithOutput :
       /\ evals[t] > 0
       /\ t \notin absent
       /\ MissingDep(t)
       /\ FuncDeps(t) \subseteq DOMAIN processed
       /\ FuncDeps(t) # {}
       /\ mode = "aborted"

\* C8: a process that failed is the last process the run has started, and
\* the run is aborting or has aborted.
C8_FailureAborts ==
    \A i \in DOMAIN procs :
       ~procs[i].ok => i = Len(procs) /\ mode \in {"panic", "aborted"}

\* a run has aborted on the failure of a process that was not its first
C8_Witness ==
    /\ mode = "aborted"
    /\ Len(procs) > 1
    /\ ~procs[Len(procs)].ok

\* the generated sources of the six grammar targets and the binaries of the
\* bootstrap stages
Artifacts ==
    {Output(t) :
        t \in {"grammars_c", "grammars_calculator", "grammars_calculator_ast",
               "grammars_fexl", "grammars_java", "grammars_long_test",
               "bootstrap", "peg0", "peg1", "peg2", "peg3", "peg_bootstrap"}}

\* C9: after clean has completed none of the generated sources of the
\* grammar targets and none of the bootstrap binaries exists.
C9_CleanRemovesArtifacts ==
    target = "clean" /\ mode = "exited" => \A f \in Artifacts : fs[f] = Missing

\* C10: during and after a run of clean the processed map holds no entry.
C10_CleanCacheEmpty ==
    target = "clean" => DOMAIN processed = {}

\* clean has completed and has deleted something
C10_Witness ==
    /\ target = "clean"
    /\ mode = "exited"
    /\ fs # fs0

\* the target function changes the working directory for its action
HasChdir(fn) == \E k \in DOMAIN Body(fn) : Body(fn)[k].op = "chdir"

\* C11: whenever a function ends, by its return or by the unwinding of a
\* panic, the working directory is the one of the moment it was called.
C11_CwdRestored ==
    [][Len(stack') < Len(stack) => cwd' = Top.entry]_vars

\* a run has aborted on a process that failed inside the directory of its
\* target, after another target had returned from its directory
C11_Witness ==
    /\ mode = "aborted"
    /\ procs # <<>>
    /\ ~procs[Len(procs)].ok
    /\ HasChdir(procs[Len(procs)].fn)
    /\ \E t \in built : HasChdir(t)
    /\ cwd = <<>>

\* C12: a run of a name the switch of main does not know has called no
\* target function and started no process, and has left the files, the
\* processed map and the working directory as they were; the step that
\* starts a run without a name is a step that starts a run of peg, and
\* conversely.
C12_UnknownAndDefault ==
    [][/\ main("") <=> main("peg")
       /\ target' \notin Dispatched \cup {"help", "none"} =>
             /\ stack' = <<>>
             /\ mode' = "exited"
             /\ \A t \in Targets : evals'[t] = 0 /\ acts'[t] = 0
             /\ procs' = <<>>
             /\ fs' = fs
             /\ DOMAIN processed' = {}
             /\ cwd' = <<>>]_vars

\* a run of an unknown name has ended on a complete build
C12_Witness ==
    /\ target = "other"
    /\ mode = "exited"
    /\ fs = Built

\* C13: when the previous run has rebuilt a target and has aborted before
\* it rebuilt a target that depends on it, this run does not find the
\* dependent target up to date.
C13_RebuiltDependencyMakesStale ==
    \A m \in DoneTargets :
       \A n \in FuncDeps(m) :
          prev.mode = "aborted" /\ n \in prev.built /\ m \notin prev.built
             => m \notin skipped

\* Reach, tabulated
Below == [t \in Targets |-> Reach(t)]

\* the target of the process that was started last
LastProc == procs[Len(procs)].fn

\* C14: the action of a target has started only when every target it
\* depends on, directly or indirectly, has returned in this run; no process
\* of a target is started after a process of a target that depends on it;
\* of two target dependencies of one done, the processes of the one declared
\* first come first; and when the eight targets of peg have all run their
\* actions, their processes come in the order bootstrap, peg0, peg1, peg2,
\* peg3, peg_bootstrap, peg_peg_go, peg.  The processes of a run are only
\* appended to procs, so the order is stated of the process started last
\* against every process before it.
C14_Ordering ==
    /\ \A t \in DoneTargets :
          acts[t] > 0 => Below[t] \ {t} \subseteq skipped \cup built
    /\ procs # <<>> =>
          /\ \A i \in DOMAIN procs :
                LastProc \notin Below[procs[i].fn] \ {procs[i].fn}
          /\ \A m \in DoneTargets :
                \A a \in DOMAIN Deps(m) :
                   \A b \in DOMAIN Deps(m) :
                      (/\ a < b
                       /\ Deps(m)[a].kind = "func"
                       /\ Deps(m)[b].kind = "func"
                       /\ LastProc \in Below[Deps(m)[a].fn]) =>
                         \A i \in DOMAIN procs :
                            \/ procs[i].fn \in Below[Deps(m)[a].fn]
                            \/ procs[i].fn \notin Below[Deps(m)[b].fn]
          /\ LET order == <<"bootstrap", "peg0", "peg1", "peg2", "peg3",
                            "peg_bootstrap", "peg_peg_go", "peg">>
             IN /\ \A a \in DOMAIN order :
                      \A b \in DOMAIN order :
                         a < b /\ LastProc = order[a] =>
                            \A i \in DOMAIN procs : procs[i].fn # order[b]
                /\ ("peg" \in built /\ \A k \in DOMAIN order : acts[order[k]] = 1) =>
                      \A k \in DOMAIN order :
                         \E i \in DOMAIN procs : procs[i].fn = order[k]

\* test has been rebuilt completely: every target it depends on has run its
\* action, and so has test
C14_Witness ==
    /\ target = "test"
    /\ mode = "exited"
    /\ \A t \in Reach("test") : acts[t] = 1
    /\ LastProc = "test"

\* the targets a run of t refers to: t, the targets its body calls, and
\* the targets these depend on
Referenced(t) ==
    Below[t] \cup
    UNION {Below[Body(t)[k].fn] : k \in {n \in DOMAIN Body(t) : Body(t)[n].op = "call"}}

\* C15: when a run has ended without aborting, every target its target
\* refers to has been called exactly once; and at any moment every target
\* dependency that a done has passed in its loop has been called, whatever
\* fini was.
C15_NoShortCircuit ==
    /\ mode = "exited" /\ target \in Dispatched =>
          \A t \in Referenced(target) : evals[t] = 1
    /\ \A k \in DOMAIN stack :
          InDone(stack[k]) =>
             \A j \in DOMAIN Deps(stack[k].fn) :
                j < stack[k].i /\ Deps(stack[k].fn)[j].kind = "func" =>
                   evals[Deps(stack[k].fn)[j].fn] = 1

\* test has ended, every target below it was called once, and the output of
\* each of them was absent when it was called
C15_Witness ==
    /\ target = "test"
    /\ mode = "exited"
    /\ \A t \in Below["test"] : evals[t] = 1
    /\ Below["test"] \cap WithOutput \subseteq absent

\* C16: whenever a function is at its done call or at its chdir call the
\* working directory is the one the run started in; at most one function
\* has a deferred chdir, it has one only, and the working directory differs
\* from the initial one only while the running function has it.
C16_CwdInvariant ==
    /\ AtOp("done") \/ AtOp("chdir") => cwd = <<>>
    /\ \A k \in DOMAIN stack :
          /\ Len(stack[k].defers) <= 1
          /\ stack[k].defers # <<>> => k = Len(stack)
    /\ cwd # <<>> => stack # <<>> /\ Top.defers # <<>>

\* a target is about to enter its directory after another target has
\* returned from its own
C16_Witness ==
    /\ AtOp("chdir")
    /\ Len(stack) > 1
    /\ \E t \in built : HasChdir(t)

\* C17: a step that starts a run leaves processed empty; any other step
\* keeps every entry of processed as it is; after every step an entry
\* belongs to a target that was called exactly once in this run, it is true
\* exactly when the target returned true without running its action, and
\* false exactly when the target ran its action and returned false; and
\* every target that returned to a done has its entry.
C17_CacheConsistent ==
    [][/\ left' # left => DOMAIN processed' = {}
       /\ left' = left =>
             \A t \in DOMAIN processed :
                t \in DOMAIN processed' /\ processed'[t] = processed[t]
       /\ \A t \in DOMAIN processed' :
             /\ evals'[t] = 1
             /\ processed'[t] <=> t \in skipped'
             /\ processed'[t] <=> acts'[t] = 0
             /\ ~processed'[t] <=> t \in built'
       /\ \A t \in skipped' \cup built' :
             \/ t \in DOMAIN processed'
             \/ ~\E m \in Referenced(target') \cap DoneTargets :
                     t \in FuncDeps(m)]_vars

\* in a run that follows a run of peg, processed holds an entry that is true
\* and an entry that is false
C17_Witness ==
    /\ prev.target = "peg"
    /\ prev.built # {}
    /\ \E t \in DOMAIN processed : processed[t]
    /\ \E t \in DOMAIN processed : ~processed[t]

\* C18: a step changes the output file of the command that is running only
\* when the child process of that command has exited successfully; and the
\* step in which a child process fails changes no file and is the start of
\* the abort, during which no file changes either.
C18_OutputAfterSuccess ==
    [][/\ AtOp("command") /\ Op.outputFile # <<>> =>
             /\ fs'[Resolve(cwd, Op.outputFile)] # fs[Resolve(cwd, Op.outputFile)]
                   => /\ Top.exited
                      /\ procs # <<>>
                      /\ procs[Len(procs)] = [fn |-> Top.fn, pc |-> Top.pc, ok |-> TRUE]
             /\ Len(procs') > Len(procs) /\ ~procs'[Len(procs')].ok
                   => fs' = fs /\ mode' = "panic"
       /\ mode = "panic" => fs' = fs /\ mode' \in {"panic", "aborted"}]_vars

\* the run has aborted on the failure of the process that peg_peg_go starts
\* with peg.peg.go as its output file; the file exists and is as it was
C18_Witness ==
    /\ mode = "aborted"
    /\ procs # <<>>
    /\ ~procs[Len(procs)].ok
    /\ Body(procs[Len(procs)].fn)[procs[Len(procs)].pc].outputFile = <<"peg.peg.go">>
    /\ fs[<<"peg.peg.go">>] # Missing
    /\ fs[<<"peg.peg.go">>] = fs0[<<"peg.peg.go">>]

====
